---------------------------- MODULE Spec2Model ----------------------------
(***************************************************************************)
(* A model of the clearly-defined client crate: the coordinate text form   *)
(* (src/src/lib.rs), the batch request builder `definitions::get` and the  *)
(* tolerant `Definition` decoder (src/src/definitions.rs), and the         *)
(* response handling of `ApiResponse::try_from_parts`.                     *)
(*                                                                         *)
(* Text is modelled as a sequence of one-character strings, so that        *)
(* formatting, splitting on "/" and number parsing are computed and not    *)
(* assumed.                                                                *)
(***************************************************************************)
EXTENDS Integers, Sequences, FiniteSets, TLC

VARIABLES
    pc,           \* position of the operation under way
    arg,          \* the argument the operation was called with
    chunk_size,   \* definitions::get: the local `chunk_size` (after min)
    coordinates,  \* definitions::get: what is left of the input iterator
    coords,       \* definitions::get: the chunk being filled
    requests,     \* definitions::get: the chunks collected / not yet yielded
    yielded,      \* definitions::get: the requests the caller has pulled
    result        \* the value returned by a decode / parse / format call

vars == <<pc, arg, chunk_size, coordinates, coords, requests, yielded, result>>

None == [tag |-> "None"]
Some(x) == [tag |-> "Some", val |-> x]
Ok(x) == [tag |-> "Ok", val |-> x]
Err(kind, what) == [tag |-> "Err", kind |-> kind, what |-> what]

NoGet == <<>>

(***************************************************************************)
(* Text helpers.                                                           *)
(***************************************************************************)
Digits == <<"0", "1", "2", "3", "4", "5", "6", "7", "8", "9">>

DigitSet == {Digits[i] : i \in 1..10}

DigitVal(c) == (CHOOSE i \in 1..10 : Digits[i] = c) - 1

\* The decimal rendering of a natural number (`{}` of an integer).
RECURSIVE FmtNat(_)
FmtNat(n) == IF n < 10 THEN <<Digits[n + 1]>>
             ELSE FmtNat(n \div 10) \o <<Digits[(n % 10) + 1]>>

\* The value of a string of decimal digits.
RECURSIVE NatVal(_)
NatVal(s) == IF s = <<>> THEN 0
             ELSE 10 * NatVal(SubSeq(s, 1, Len(s) - 1)) + DigitVal(s[Len(s)])

AllDigits(s) == \A i \in 1..Len(s) : s[i] \in DigitSet

\* All sequences over S of length at most n.
SeqsUpTo(S, n) == UNION {[1..k -> S] : k \in 0..n}

\* The index of the first occurrence of c in s, 0 when there is none.
IndexOf(s, c) == IF \E i \in 1..Len(s) : s[i] = c
                 THEN CHOOSE i \in 1..Len(s) : s[i] = c /\ \A j \in 1..(i - 1) : s[j] # c
                 ELSE 0

\* str::split(sep): the pieces of s between the occurrences of sep.
RECURSIVE Split(_, _)
Split(s, sep) == LET i == IndexOf(s, sep)
                 IN IF i = 0 THEN <<s>>
                    ELSE <<SubSeq(s, 1, i - 1)>> \o Split(SubSeq(s, i + 1, Len(s)), sep)

(***************************************************************************)
(* Shape and Provider (src/src/lib.rs).                                    *)
(***************************************************************************)
Shapes == {"Crate", "Git"}

Providers == {"CratesIo", "Github"}

ShapeAsStr(shape) == IF shape = "Crate" THEN <<"c", "r", "a", "t", "e">>
                     ELSE <<"g", "i", "t">>

ShapeFromStr(s) == IF s = <<"c", "r", "a", "t", "e">> THEN Ok("Crate")
                   ELSE IF s = <<"g", "i", "t">> THEN Ok("Git")
                   ELSE Err("Other", <<"unknown shape", s>>)

ProviderAsStr(p) == IF p = "CratesIo" THEN <<"c", "r", "a", "t", "e", "s", "i", "o">>
                    ELSE <<"g", "i", "t", "h", "u", "b">>

ProviderFromStr(s) == IF s = <<"c", "r", "a", "t", "e", "s", "i", "o">> THEN Ok("CratesIo")
                      ELSE IF s = <<"g", "i", "t", "h", "u", "b">> THEN Ok("Github")
                      ELSE Err("Other", <<"unknown provider", s>>)

(***************************************************************************)
(* CoordVersion (src/src/lib.rs).  `value.parse::<semver::Version>()` is   *)
(* the semver crate; it is modelled by the Semantic Versioning 2.0.0       *)
(* grammar: three dot-separated numbers without leading zeros, then an     *)
(* optional "-" pre-release and an optional "+" build, each a list of      *)
(* dot-separated non-empty identifiers over [0-9A-Za-z-]; a numeric        *)
(* pre-release identifier has no leading zero.                             *)
(***************************************************************************)
Letters == {"a", "b", "c", "d", "e", "f", "g", "h", "i", "m", "n", "o",
            "p", "r", "s", "t", "u", "v", "x", "y"}

IdentChars == DigitSet \cup Letters \cup {"-"}

IsNumeric(s) == s # <<>> /\ AllDigits(s) /\ (Len(s) > 1 => s[1] # "0")

IsIdent(s) == s # <<>> /\ \A i \in 1..Len(s) : s[i] \in IdentChars

IsPreIdent(s) == IsIdent(s) /\ (AllDigits(s) => IsNumeric(s))

\* An identifier as the parser keeps it: a number or a piece of text.
IdentOf(s) == IF AllDigits(s) THEN [kind |-> "num", num |-> NatVal(s), text |-> <<>>]
              ELSE [kind |-> "alpha", num |-> 0, text |-> s]

IdentStr(id) == IF id.kind = "num" THEN FmtNat(id.num) ELSE id.text

\* The pieces of s joined by sep.
RECURSIVE Join(_, _)
Join(pieces, sep) == IF pieces = <<>> THEN <<>>
                     ELSE IF Len(pieces) = 1 THEN pieces[1]
                     ELSE pieces[1] \o sep \o Join(Tail(pieces), sep)

SemverParse(s) ==
    LET plus == IndexOf(s, "+")
        front == IF plus = 0 THEN s ELSE SubSeq(s, 1, plus - 1)
        build == IF plus = 0 THEN <<>> ELSE Split(SubSeq(s, plus + 1, Len(s)), ".")
        dash == IndexOf(front, "-")
        core == Split(IF dash = 0 THEN front ELSE SubSeq(front, 1, dash - 1), ".")
        pre == IF dash = 0 THEN <<>> ELSE Split(SubSeq(front, dash + 1, Len(front)), ".")
    IN IF /\ Len(core) = 3
          /\ \A i \in 1..3 : IsNumeric(core[i])
          /\ \A i \in 1..Len(pre) : IsPreIdent(pre[i])
          /\ \A i \in 1..Len(build) : IsIdent(build[i])
       THEN Ok([major |-> NatVal(core[1]), minor |-> NatVal(core[2]),
                patch |-> NatVal(core[3]),
                pre |-> [i \in 1..Len(pre) |-> IdentOf(pre[i])],
                build |-> [i \in 1..Len(build) |-> [kind |-> "alpha", num |-> 0, text |-> build[i]]]])
       ELSE Err("Semver", s)

\* Display of semver::Version: the canonical text.
SemverDisplay(v) ==
    FmtNat(v.major) \o <<".">> \o FmtNat(v.minor) \o <<".">> \o FmtNat(v.patch)
    \o (IF v.pre = <<>> THEN <<>>
        ELSE <<"-">> \o Join([i \in 1..Len(v.pre) |-> IdentStr(v.pre[i])], <<".">>))
    \o (IF v.build = <<>> THEN <<>>
        ELSE <<"+">> \o Join([i \in 1..Len(v.build) |-> IdentStr(v.build[i])], <<".">>))

\* A CoordVersion is a record of its variant (`tag`) and the variant's
\* content: `version` for Version, `text` for Any; the other field is blank.
NoVersion == [major |-> 0, minor |-> 0, patch |-> 0, pre |-> <<>>, build |-> <<>>]

VersionOf(vs) == [tag |-> "Version", version |-> vs, text |-> <<>>]

AnyOfTrimmed(value) == [tag |-> "Any", version |-> NoVersion,
                        text |-> IF value = <<>> THEN value ELSE Tail(value)]

\* What CoordVersion::Any keeps of the text it was given.
AnyOf(value) == [tag |-> "Any", version |-> NoVersion, text |-> value]

\* Vers::visit_str: a semantic version when the text is one, else the text.
CoordVersionVisitStr(value) ==
    LET p == SemverParse(value)
    IN IF p.tag = "Ok" THEN Ok(VersionOf(p.val))
       ELSE Ok(AnyOf(value))

\* Display for CoordVersion.
CoordVersionFmt(v) == IF v.tag = "Version" THEN SemverDisplay(v.version) ELSE v.text

(***************************************************************************)
(* Coordinate and its text form (src/src/lib.rs, CoordDisp::fmt).          *)
(***************************************************************************)
NamespaceFmtEmpty(ns) == IF ns.tag = "Some" THEN ns.val ELSE <<>>

\* The namespace segment: the text, or "-" when there is no namespace.
NamespaceFmt(ns) == IF ns.tag = "Some" THEN ns.val ELSE <<"-">>

\* The curation PR suffix: "/pr/<number>" when there is one.
CurationPrFmt(pr) == IF pr.tag = "Some"
                     THEN <<"/", "p", "r", "/">> \o FmtNat(pr.val)
                     ELSE <<>>

CoordDispFmt(c) ==
    ShapeAsStr(c.shape) \o <<"/">> \o ProviderAsStr(c.provider) \o <<"/">>
    \o NamespaceFmt(c.namespace) \o <<"/">> \o c.name \o <<"/">>
    \o CoordVersionFmt(c.version) \o CurationPrFmt(c.curation_pr)

(***************************************************************************)
(* definitions::get (src/src/definitions.rs).  The function runs its `for` *)
(* loop over the whole input, collecting the chunks in `requests`, and     *)
(* only then returns `requests.into_iter().map(..)`; the caller pulls the  *)
(* requests from that iterator one at a time.                              *)
(***************************************************************************)
MaxPerRequest == 1000

MaxSmallChunk == 3

MaxSmallLen == 3

Min(a, b) == IF a < b THEN a ELSE b

ClampChunkSizeNoLimit(requested) == requested

\* The chunk size get works with.
ClampChunkSize(requested) == Min(requested, MaxPerRequest)

\* The coordinates the inputs of get are made of.
GetCoordPool ==
    << [shape |-> "Crate", provider |-> "CratesIo", namespace |-> None,
        name |-> <<"s">>, version |-> AnyOf(<<"a">>), curation_pr |-> None],
       [shape |-> "Git", provider |-> "Github", namespace |-> Some(<<"o">>),
        name |-> <<"r">>, version |-> AnyOf(<<"b">>), curation_pr |-> Some(7)],
       [shape |-> "Crate", provider |-> "CratesIo", namespace |-> None,
        name |-> <<"s">>, version |-> CoordVersionVisitStr(<<"1", ".", "0", ".", "1">>).val,
        curation_pr |-> None] >>

SmallInputs == SeqsUpTo({GetCoordPool[i] : i \in 1..Len(GetCoordPool)}, MaxSmallLen)

\* An input of n coordinates, cycling through the pool.
LongInput(n) == [i \in 1..n |-> GetCoordPool[(i % Len(GetCoordPool)) + 1]]

LongInputs == {LongInput(MaxPerRequest), LongInput(MaxPerRequest + 1),
               LongInput(2 * MaxPerRequest + 1)}

SmallChunkSizes == 0..MaxSmallChunk

BigChunkSizes == {MaxPerRequest, MaxPerRequest + 1}

\* The calls of get that are explored: <<chunk_size, coordinates>>.
GetCalls == ((SmallChunkSizes \cup BigChunkSizes) \X SmallInputs)
            \cup (({0} \cup BigChunkSizes) \X LongInputs)

\* The http::Request built from one chunk by the closure of `map`.
BuildRequest(req) == [method |-> "POST", uri |-> "https://api.clearlydefined.io/definitions",
                      content_type |-> "application/json", accept |-> "application/json",
                      body |-> req]

\* The chunk after `coords.push(..)`.
PushCoord(chunk, coord) == Append(chunk, CoordDispFmt(coord))

\* `if coords.len() == chunk_size`: the chunk is moved to `requests`.
ChunkFull(chunk, size) == Len(chunk) = size

InitGet ==
    /\ \E call \in GetCalls :
        /\ arg = call
        /\ chunk_size = ClampChunkSize(call[1])
        /\ coordinates = call[2]
    /\ pc = "loop"
    /\ coords = <<>>
    /\ requests = <<>>
    /\ yielded = <<>>
    /\ result = NoGet

\* One turn of `for coord in coordinates`.
GetLoop ==
    /\ pc = "loop"
    /\ coordinates # <<>>
    /\ LET pushed == PushCoord(coords, Head(coordinates))
       IN IF ChunkFull(pushed, chunk_size)
          THEN requests' = Append(requests, pushed) /\ coords' = <<>>
          ELSE requests' = requests /\ coords' = pushed
    /\ coordinates' = Tail(coordinates)
    /\ UNCHANGED <<pc, arg, chunk_size, yielded, result>>

\* The input is exhausted: the partial chunk is kept and the iterator returned.
GetReturn ==
    /\ pc = "loop"
    /\ coordinates = <<>>
    /\ requests' = IF coords # <<>> THEN Append(requests, coords) ELSE requests
    /\ coords' = <<>>
    /\ pc' = "iter"
    /\ UNCHANGED <<arg, chunk_size, coordinates, yielded, result>>

\* A builder that hands out a chunk as soon as it is complete.
IterNextLazy ==
    /\ pc \in {"loop", "iter"}
    /\ requests # <<>>
    /\ yielded' = Append(yielded, BuildRequest(Head(requests)))
    /\ requests' = Tail(requests)
    /\ UNCHANGED <<pc, arg, chunk_size, coordinates, coords, result>>

\* The caller pulls the next request from the returned iterator.
IterNext ==
    /\ pc = "iter"
    /\ requests # <<>>
    /\ yielded' = Append(yielded, BuildRequest(Head(requests)))
    /\ requests' = Tail(requests)
    /\ UNCHANGED <<pc, arg, chunk_size, coordinates, coords, result>>

\* The returned iterator is exhausted.
IterEnd ==
    /\ pc = "iter"
    /\ requests = <<>>
    /\ pc' = "done"
    /\ UNCHANGED <<arg, chunk_size, coordinates, coords, requests, yielded, result>>

NextGet == GetLoop \/ GetReturn \/ IterNext \/ IterEnd

SpecGet == InitGet /\ [][NextGet]_vars

(***************************************************************************)
(* Properties of definitions::get.                                         *)
(***************************************************************************)
CeilDiv(n, m) == (n + m - 1) \div m

RECURSIVE ConcatBodies(_)
ConcatBodies(reqs) == IF reqs = <<>> THEN <<>>
                      ELSE Head(reqs).body \o ConcatBodies(Tail(reqs))

FormattedInput == [i \in 1..Len(arg[2]) |-> CoordDispFmt(arg[2][i])]

\* C1: for a chunk size C >= 1, once the returned iterator is exhausted it
\* has yielded ceil(N / min(C,1000)) payloads, none of them empty, all but
\* the last of min(C,1000) coordinate strings, and their contents in order
\* are the formatted input coordinates.
C1_Chunking ==
    (pc = "done" /\ arg[1] >= 1) =>
        LET m == Min(arg[1], MaxPerRequest)
        IN /\ Len(yielded) = CeilDiv(Len(arg[2]), m)
           /\ \A i \in 1..Len(yielded) : yielded[i].body # <<>>
           /\ \A i \in 1..(Len(yielded) - 1) : Len(yielded[i].body) = m
           /\ ConcatBodies(yielded) = FormattedInput

\* C1 witness: a chunk size above 1000 and more than 1000 coordinates, all
\* payloads pulled: a full payload followed by a partial one.
C1_Witness ==
    /\ pc = "done"
    /\ arg[1] > MaxPerRequest
    /\ Len(arg[2]) = MaxPerRequest + 1
    /\ Len(yielded) = 2
    /\ Len(yielded[2].body) = 1

\* C2: every payload handed out holds at most min(C, 1000) coordinate
\* strings, for every chunk size C including 0.
C2_AtMostChunk ==
    \A i \in 1..Len(yielded) :
        Len(yielded[i].body) <= Min(arg[1], MaxPerRequest)

\* C10 (as claimed): as soon as a chunk is complete a payload is obtainable
\* by the caller, even though input remains to be read.
C10_Lazy ==
    (requests # <<>> /\ coordinates # <<>>) => pc \in {"iter", "done"}

\* C10 (amended): get reads its whole input before the caller can obtain
\* any payload: while the loop runs nothing has been yielded, and whenever
\* a payload has been yielded the input is exhausted and no chunk is open.
C10_WholeInputFirst ==
    /\ pc = "loop" => yielded = <<>>
    /\ yielded # <<>> => (coordinates = <<>> /\ coords = <<>> /\ pc \in {"iter", "done"})

\* C10 witness: the caller has pulled the first payload of several, after
\* the whole input was read.
C10_Witness ==
    /\ pc = "iter"
    /\ Len(yielded) = 1
    /\ requests # <<>>
    /\ coordinates = <<>>

(***************************************************************************)
(* Parsing a text as a CoordVersion and displaying it again.               *)
(***************************************************************************)
MaxVerLen == 5

MaxSuffixLen == 4

VerChars == {"0", "1", ".", "-", "+", "a"}

VerCores == {<<"1", ".", "0", ".", "1">>, <<"0", ".", "1", "0", ".", "0">>,
             <<"0", "1", ".", "0", ".", "1">>}

\* Every short text, and the texts made of a version core and a short tail.
VersionTexts == SeqsUpTo(VerChars, MaxVerLen)
                \cup {c \o t : c \in VerCores, t \in SeqsUpTo(VerChars, MaxSuffixLen)}

InitVer ==
    /\ arg \in VersionTexts
    /\ pc = "text"
    /\ result = NoGet
    /\ chunk_size = 0 /\ coordinates = <<>> /\ coords = <<>>
    /\ requests = <<>> /\ yielded = <<>>

\* The text is deserialized as a CoordVersion.
ParseVersion ==
    /\ pc = "text"
    /\ result' = [parsed |-> CoordVersionVisitStr(arg)]
    /\ pc' = "parsed"
    /\ UNCHANGED <<arg, chunk_size, coordinates, coords, requests, yielded>>

\* The CoordVersion is displayed.
DisplayVersion ==
    /\ pc = "parsed"
    /\ result.parsed.tag = "Ok"
    /\ result' = [parsed |-> result.parsed, shown |-> CoordVersionFmt(result.parsed.val)]
    /\ pc' = "shown"
    /\ UNCHANGED <<arg, chunk_size, coordinates, coords, requests, yielded>>

NextVer == ParseVersion \/ DisplayVersion

SpecVer == InitVer /\ [][NextVer]_vars

\* C8: parsing a text as a CoordVersion never fails; the result is the
\* Version variant exactly when the text is a semantic version, and then it
\* displays as a text of the grammar that parses back to the same version;
\* otherwise it is the Any variant holding the text, and displays as the
\* input text exactly.
C8_VersionNeverFails ==
    /\ pc \in {"parsed", "shown"} =>
        /\ result.parsed.tag = "Ok"
        /\ result.parsed.val.tag \in {"Version", "Any"}
        /\ result.parsed.val.tag = "Version" <=> SemverParse(arg).tag = "Ok"
        /\ result.parsed.val.tag = "Any" => result.parsed.val.text = arg
    /\ pc = "shown" =>
        IF result.parsed.val.tag = "Any"
        THEN result.shown = arg
        ELSE /\ SemverParse(result.shown) = Ok(result.parsed.val.version)
             /\ result.shown = SemverDisplay(SemverParse(arg).val)

\* C8 witness: a text that is no semantic version (a leading zero) has been
\* parsed and displayed.
C8_Witness ==
    /\ pc = "shown"
    /\ arg = <<"0", "1", ".", "0", ".", "1">>
    /\ result.parsed.val.tag = "Any"

(***************************************************************************)
(* Parsing a coordinate text.  The parser is described by the design       *)
(* document (Coordinate parsing/formatting): the text is split on "/" into *)
(* shape, provider, namespace ("-" for none), name, version and an         *)
(* optional "pr", number pair; anything after that is an error.            *)
(***************************************************************************)
\* The PR number: a string of decimal digits that fits a u32.  Numbers of
\* up to nine digits are explored; all of them fit.
ParsePrNumber(s) == IF s # <<>> /\ AllDigits(s) /\ Len(s) <= 9
                    THEN Ok(NatVal(s))
                    ELSE Err("Other", <<"unparseable PR number", s>>)

ParseNamespace(s) == IF s = <<"-">> THEN None ELSE Some(s)

CoordinateParse(text) ==
    LET segs == Split(text, "/")
        n == Len(segs)
        shape == ShapeFromStr(segs[1])
        provider == ProviderFromStr(segs[2])
        pr == ParsePrNumber(segs[7])
    IN IF shape.tag = "Err" THEN shape
       ELSE IF n < 2 THEN Err("Other", "missing provider")
       ELSE IF provider.tag = "Err" THEN provider
       ELSE IF n < 3 THEN Err("Other", "missing namespace")
       ELSE IF n < 4 THEN Err("Other", "missing name")
       ELSE IF n < 5 THEN Err("Other", "missing version")
       ELSE IF n >= 6 /\ segs[6] # <<"p", "r">> THEN Err("Other", "expected pr")
       ELSE IF n = 6 THEN Err("Other", <<"unparseable PR number", <<>>>>)
       ELSE IF n >= 7 /\ pr.tag = "Err" THEN pr
       ELSE IF n > 7 THEN Err("Other", "unexpected trailing segment")
       ELSE Ok([shape |-> shape.val, provider |-> provider.val,
                namespace |-> ParseNamespace(segs[3]), name |-> segs[4],
                version |-> CoordVersionVisitStr(segs[5]).val,
                curation_pr |-> IF n = 7 THEN Some(pr.val) ELSE None])

\* The segments the explored texts are made of, by position.
TextSegments ==
    << {<<"c", "r", "a", "t", "e">>, <<"g", "i", "t">>, <<"n", "p", "m">>},
       {<<"c", "r", "a", "t", "e", "s", "i", "o">>, <<"g", "i", "t", "h", "u", "b">>, <<"x">>},
       {<<"-">>, <<"o">>, <<>>},
       {<<"s">>},
       {<<"1", ".", "0", ".", "1">>, <<"a">>, <<"0", "1", ".", "0", ".", "1">>,
        <<"1", ".", "0", ".", "1", "-", "a", ".", "1", "+", "0", "1">>} >>

TextTails == {<<>>, <<<<"p", "r">>, <<"7">>>>, <<<<"p", "r">>, <<"4", "2">>>>,
              <<<<"p", "r">>, <<"0", "7">>>>, <<<<"p", "r">>, <<"x">>>>,
              <<<<"p", "r">>>>, <<<<"p", "x">>, <<"7">>>>,
              <<<<"p", "r">>, <<"7">>, <<"s">>>>, <<<<"p", "r">>, <<>>>>}

\* The choices of one segment for each of the first k positions.
SegmentLists(k) == {l \in [1..k -> UNION {TextSegments[i] : i \in 1..5}] :
                        \A i \in 1..k : l[i] \in TextSegments[i]}

CoordTexts == {Join(l, <<"/">>) : l \in UNION {SegmentLists(k) : k \in 0..4}}
              \cup {Join(l \o t, <<"/">>) : l \in SegmentLists(5), t \in TextTails}

\* The coordinates a caller may construct (all fields are public).
CoordNames == {<<"s">>, <<"a", "/", "b">>}

CoordNamespaces == {None, Some(<<"o">>), Some(<<"-">>), Some(<<>>), Some(<<"a", "/", "b">>)}

CoordVersions == {CoordVersionVisitStr(<<"1", ".", "0", ".", "1">>).val,
                  CoordVersionVisitStr(<<"1", ".", "0", ".", "1", "-", "a", ".", "1">>).val,
                  AnyOf(<<"a">>), AnyOf(<<"1", ".", "0", ".", "1">>), AnyOf(<<"a", "/", "b">>)}

CoordPrs == {None, Some(0), Some(7), Some(42)}

Coords == [shape : Shapes, provider : Providers, namespace : CoordNamespaces,
           name : CoordNames, version : CoordVersions, curation_pr : CoordPrs]

InitCoord ==
    /\ \/ pc = "coord" /\ arg \in Coords
       \/ pc = "text" /\ arg \in CoordTexts
    /\ result = NoGet
    /\ chunk_size = 0 /\ coordinates = <<>> /\ coords = <<>>
    /\ requests = <<>> /\ yielded = <<>>

\* parse(text)
ParseText ==
    /\ pc = "text"
    /\ result' = [parsed |-> CoordinateParse(arg)]
    /\ pc' = "parsed"
    /\ UNCHANGED <<arg, chunk_size, coordinates, coords, requests, yielded>>

\* format(parse(text))
FormatParsed ==
    /\ pc = "parsed"
    /\ result.parsed.tag = "Ok"
    /\ result' = [parsed |-> result.parsed, shown |-> CoordDispFmt(result.parsed.val)]
    /\ pc' = "reformatted"
    /\ UNCHANGED <<arg, chunk_size, coordinates, coords, requests, yielded>>

\* format(coord)
FormatCoord ==
    /\ pc = "coord"
    /\ result' = [shown |-> CoordDispFmt(arg)]
    /\ pc' = "formatted"
    /\ UNCHANGED <<arg, chunk_size, coordinates, coords, requests, yielded>>

\* parse(format(coord))
ParseFormatted ==
    /\ pc = "formatted"
    /\ result' = [shown |-> result.shown, parsed |-> CoordinateParse(result.shown)]
    /\ pc' = "reparsed"
    /\ UNCHANGED <<arg, chunk_size, coordinates, coords, requests, yielded>>

NextCoord == ParseText \/ FormatParsed \/ FormatCoord \/ ParseFormatted

SpecCoord == InitCoord /\ [][NextCoord]_vars

HasSlash(s) == \E i \in 1..Len(s) : s[i] = "/"

\* The PR number of a coordinate text, when it has one, is written without
\* leading zeros.
CanonicalPrText(text) ==
    LET segs == Split(text, "/") IN Len(segs) = 7 => IsNumeric(segs[7])

\* A coordinate whose fields can be told apart in the text form: no "/" in
\* a field, a namespace that is not the text "-", and a version that is
\* not an opaque text holding a semantic version.
Representable(c) ==
    /\ c.namespace.tag = "Some" => (c.namespace.val # <<"-">> /\ ~HasSlash(c.namespace.val))
    /\ ~HasSlash(c.name)
    /\ c.version.tag = "Any" =>
        (~HasSlash(c.version.text) /\ SemverParse(c.version.text).tag = "Err")

\* The text form spelled out: fixed strings for shape and provider, "-" for
\* an absent namespace, "/pr/<number>" exactly when a curation PR is present.
RendersAsDocumented(c, shown) ==
    shown = (IF c.shape = "Crate" THEN <<"c", "r", "a", "t", "e">> ELSE <<"g", "i", "t">>)
            \o <<"/">>
            \o (IF c.provider = "CratesIo" THEN <<"c", "r", "a", "t", "e", "s", "i", "o">>
                ELSE <<"g", "i", "t", "h", "u", "b">>)
            \o <<"/">> \o (IF c.namespace = None THEN <<"-">> ELSE c.namespace.val)
            \o <<"/">> \o c.name \o <<"/">> \o CoordVersionFmt(c.version)
            \o (IF c.curation_pr = None THEN <<>>
                ELSE <<"/", "p", "r", "/">> \o FmtNat(c.curation_pr.val))

\* C9 (as claimed): format(parse(text)) = text for every valid text, and
\* parse(format(coord)) = coord for every constructed coordinate, the text
\* being rendered as documented.
C9_RoundTrip ==
    /\ pc = "reformatted" => result.shown = arg
    /\ pc = "formatted" => RendersAsDocumented(arg, result.shown)
    /\ pc = "reparsed" => result.parsed = Ok(arg)

\* C9 (amended): format(parse(text)) = text for every valid text whose PR
\* number is written without leading zeros, and parse(format(coord)) =
\* coord for every representable coordinate; every coordinate is rendered
\* as documented.
C9_RoundTripCanonical ==
    /\ (pc = "reformatted" /\ CanonicalPrText(arg)) => result.shown = arg
    /\ pc = "formatted" => RendersAsDocumented(arg, result.shown)
    /\ (pc = "reparsed" /\ Representable(arg)) => result.parsed = Ok(arg)

\* C9 witness: a coordinate without namespace and with a curation PR has
\* been formatted and parsed back to itself.
C9_Witness ==
    /\ pc = "reparsed"
    /\ arg.namespace = None
    /\ arg.curation_pr = Some(42)
    /\ arg.version.tag = "Version"
    /\ result.parsed = Ok(arg)

(***************************************************************************)
(* Decoding a Definition (src/src/definitions.rs, DefVisitor::visit_map).  *)
(*                                                                         *)
(* A JSON object is the sequence of its entries [key, value] in payload    *)
(* order.  A value is abstracted to what the typed decoders make of it:    *)
(*   t = "obj"  an object that is well formed for the type asked of it,    *)
(*              `id` telling one such object from another;                 *)
(*   t = "arr"  an array of `id` well-formed File objects;                 *)
(*   t = "bad"  a value that fails the structural validation of the type.  *)
(*                                                                         *)
(* The visitor reads the object through serde's MapAccess.  Its protocol   *)
(* is next_key, then next_value, for every entry.  The arm for an unknown  *)
(* key does not call next_value.  What the following next_key then does    *)
(* depends on the deserializer behind the MapAccess:                       *)
(*   "stream"    serde_json reading the payload text (from_slice/from_str  *)
(*               of a Definition): the reader still stands before the ":"  *)
(*               of the skipped value and next_key fails with a syntax     *)
(*               error;                                                    *)
(*   "buffered"  a map already held in memory (serde's buffered content    *)
(*               behind `#[serde(flatten)]`, as in GetResponse, or a       *)
(*               serde_json::Value): the pending value is dropped.         *)
(***************************************************************************)
Accesses == {"stream", "buffered"}

RecognizedKeys == {"coordinates", "described", "licensed", "files", "scores"}

JObj(id) == [t |-> "obj", id |-> id]

JArr(n) == [t |-> "arr", id |-> n]

JBad == [t |-> "bad", id |-> 0]

\* <DefCoords as Deserialize>
DecodeDefCoords(v) == IF v.t = "obj" THEN Ok(v.id) ELSE Err("invalid", "coordinates")

\* <Description as Deserialize>
DecodeDescription(v) == IF v.t = "obj" THEN Ok(v.id) ELSE Err("invalid", "described")

\* <License as Deserialize>
DecodeLicense(v) == IF v.t = "obj" THEN Ok(v.id) ELSE Err("invalid", "licensed")

\* <Vec<File> as Deserialize>
DecodeFiles(v) == IF v.t = "arr" THEN Ok([i \in 1..v.id |-> i]) ELSE Err("invalid", "files")

\* <TopLevelScore as Deserialize>
DecodeScores(v) == IF v.t = "obj" THEN Ok([effective |-> v.id, tool |-> v.id])
                   ELSE Err("invalid", "scores")

\* Result::ok
OkOf(r) == IF r.tag = "Ok" THEN Some(r.val) ELSE None

\* The locals of visit_map before the loop.
VisitInit == [coordinates |-> None, described |-> None, licensed |-> None,
              files |-> <<>>, scores |-> [effective |-> 0, tool |-> 0]]

\* map.next_key(): `pending` says that the value of the previous key was
\* not taken with next_value.
NextKey(entries, i, pending, access) ==
    IF pending /\ access = "stream" THEN Err("syntax", "expected comma or closing brace")
    ELSE IF i > Len(entries) THEN Ok(None)
    ELSE Ok(Some(entries[i].key))

\* `if !files.is_empty()`: the test that guards the "files" arm.
FilesSeen(st) == st.files # <<>>

\* A finish that takes a missing `described` or `licensed` key for None.
VisitFinishLenient(st) ==
    IF st.coordinates.tag = "None" THEN Err("missing_field", "coordinates")
    ELSE Ok([coordinates |-> st.coordinates.val,
             described |-> IF st.described.tag = "None" THEN None ELSE st.described.val,
             licensed |-> IF st.licensed.tag = "None" THEN None ELSE st.licensed.val,
             files |-> st.files, scores |-> st.scores])

\* What is returned after the loop.
VisitFinish(st) ==
    IF st.coordinates.tag = "None" THEN Err("missing_field", "coordinates")
    ELSE IF st.described.tag = "None" THEN Err("missing_field", "described")
    ELSE IF st.licensed.tag = "None" THEN Err("missing_field", "licensed")
    ELSE Ok([coordinates |-> st.coordinates.val, described |-> st.described.val,
             licensed |-> st.licensed.val, files |-> st.files, scores |-> st.scores])

\* The `while let Some(key) = map.next_key()?` loop from entry i on.
RECURSIVE VisitLoop(_, _, _, _, _)
VisitLoop(entries, i, pending, st, access) ==
    LET k == NextKey(entries, i, pending, access)
        v == entries[i].value
    IN IF k.tag = "Err" THEN k
       ELSE IF k.val.tag = "None" THEN VisitFinish(st)
       ELSE IF k.val.val = "coordinates" THEN
            IF st.coordinates.tag = "Some" THEN Err("duplicate_field", "coordinates")
            ELSE LET d == DecodeDefCoords(v)
                 IN IF d.tag = "Err" THEN d
                    ELSE VisitLoop(entries, i + 1, FALSE,
                                   [st EXCEPT !.coordinates = Some(d.val)], access)
       ELSE IF k.val.val = "described" THEN
            IF st.described.tag = "Some" THEN Err("duplicate_field", "described")
            ELSE VisitLoop(entries, i + 1, FALSE,
                           [st EXCEPT !.described = Some(OkOf(DecodeDescription(v)))], access)
       ELSE IF k.val.val = "licensed" THEN
            IF st.licensed.tag = "Some" THEN Err("duplicate_field", "licensed")
            ELSE VisitLoop(entries, i + 1, FALSE,
                           [st EXCEPT !.licensed = Some(OkOf(DecodeLicense(v)))], access)
       ELSE IF k.val.val = "files" THEN
            IF FilesSeen(st) THEN Err("duplicate_field", "files")
            ELSE LET d == DecodeFiles(v)
                 IN IF d.tag = "Err" THEN d
                    ELSE VisitLoop(entries, i + 1, FALSE, [st EXCEPT !.files = d.val], access)
       ELSE IF k.val.val = "scores" THEN
            LET d == DecodeScores(v)
            IN IF d.tag = "Err" THEN d
               ELSE VisitLoop(entries, i + 1, FALSE, [st EXCEPT !.scores = d.val], access)
       ELSE VisitLoop(entries, i + 1, TRUE, st, access)

\* <Definition as Deserialize>::deserialize of a JSON object.
VisitMap(entries, access) == VisitLoop(entries, 1, FALSE, VisitInit, access)

(***************************************************************************)
(* Decoding one definition object, read from the payload text ("stream")   *)
(* or from a buffered map ("buffered").                                    *)
(***************************************************************************)
MaxEntries == 4

Entry(k, v) == [key |-> k, value |-> v]

\* The entries the explored objects are made of.
EntryPool == {Entry("coordinates", JObj(1)),
              Entry("described", JObj(1)), Entry("described", JBad),
              Entry("licensed", JObj(1)), Entry("licensed", JBad),
              Entry("files", JArr(0)), Entry("files", JArr(1)),
              Entry("scores", JObj(1)), Entry("scores", JObj(2)),
              Entry("_meta", JObj(1))}

\* s with e put in before position i.
InsertAt(s, i, e) == SubSeq(s, 1, i - 1) \o <<e>> \o SubSeq(s, i, Len(s))

\* Objects holding each of the five keys once, in a few orders.
CompleteObjects ==
    {<<Entry("coordinates", JObj(1)), d, l, f, sc>> :
        d \in {Entry("described", JObj(1)), Entry("described", JBad)},
        l \in {Entry("licensed", JObj(1)), Entry("licensed", JBad)},
        f \in {Entry("files", JArr(0)), Entry("files", JArr(1))},
        sc \in {Entry("scores", JObj(1))}}
    \cup
    {<<sc, f, l, d, Entry("coordinates", JObj(1))>> :
        d \in {Entry("described", JObj(1)), Entry("described", JBad)},
        l \in {Entry("licensed", JObj(1)), Entry("licensed", JBad)},
        f \in {Entry("files", JArr(0)), Entry("files", JArr(1))},
        sc \in {Entry("scores", JObj(2))}}

\* Every short object, and the complete objects with one more entry.
DefObjects == SeqsUpTo(EntryPool, MaxEntries)
              \cup CompleteObjects
              \cup {InsertAt(o, i, e) : o \in CompleteObjects, i \in 1..6, e \in EntryPool}

InitDef ==
    /\ \E o \in DefObjects, a \in Accesses : arg = [obj |-> o, access |-> a]
    /\ pc = "payload"
    /\ result = NoGet
    /\ chunk_size = 0 /\ coordinates = <<>> /\ coords = <<>>
    /\ requests = <<>> /\ yielded = <<>>

\* Definition::deserialize on the object.
DecodeDefinition ==
    /\ pc = "payload"
    /\ result' = VisitMap(arg.obj, arg.access)
    /\ pc' = "decoded"
    /\ UNCHANGED <<arg, chunk_size, coordinates, coords, requests, yielded>>

NextDef == DecodeDefinition

SpecDef == InitDef /\ [][NextDef]_vars

(***************************************************************************)
(* Properties of the Definition decoder.                                   *)
(***************************************************************************)
Positions(obj, k) == {i \in 1..Len(obj) : obj[i].key = k}

\* obj with the value at position i replaced by v.
WithValue(obj, i, v) == [obj EXCEPT ![i] = Entry(obj[i].key, v)]

\* obj without its entries of unrecognized keys.
RECURSIVE StripUnknown(_)
StripUnknown(obj) ==
    IF obj = <<>> THEN <<>>
    ELSE (IF Head(obj).key \in RecognizedKeys THEN <<Head(obj)>> ELSE <<>>)
         \o StripUnknown(Tail(obj))

\* The tolerance for key k at position i of the decoded object: the value
\* there is invalid, and with a valid value in its place the object decodes.
TolerantCase(k, i) ==
    /\ arg.obj[i] = Entry(k, JBad)
    /\ VisitMap(WithValue(arg.obj, i, JObj(1)), arg.access).tag = "Ok"

C4_DuplicateIsError ==
    (/\ pc = "decoded"
     /\ \A k \in {"coordinates", "described", "licensed"} : Positions(arg.obj, k) # {}
     /\ \A i \in 1..Len(arg.obj) : arg.obj[i].key \in RecognizedKeys
     /\ \E k \in RecognizedKeys : Cardinality(Positions(arg.obj, k)) >= 2)
    => /\ result.tag = "Err"
       /\ result.kind = "duplicate_field"
       /\ Cardinality(Positions(arg.obj, result.what)) >= 2

\* C5 (as claimed): an object with unknown keys, which decodes without
\* them, decodes to the same Definition with them.
C5_UnknownIgnored ==
    (/\ pc = "decoded"
     /\ StripUnknown(arg.obj) # arg.obj
     /\ VisitMap(StripUnknown(arg.obj), arg.access).tag = "Ok")
    => result = VisitMap(StripUnknown(arg.obj), arg.access)

(***************************************************************************)
(* GetResponse::try_from (src/src/definitions.rs) and                      *)
(* ApiResponse::try_from_parts (src/src/lib.rs).                           *)
(*                                                                         *)
(* A body is either text that is no JSON object ("garbage") or a JSON      *)
(* object, the sequence of its entries [key, value] in payload order, the  *)
(* key a coordinate text and the value a definition object or a scalar.    *)
(* RawGetResponse flattens the object into a BTreeMap<String, Definition>: *)
(* every entry is decoded, in payload order, from serde's buffered         *)
(* content, and inserted under its key.                                    *)
(***************************************************************************)
\* The characters of the model in byte order.
AsciiOrder == <<"+", "-", ".", "/", "0", "1", "2", "3", "4", "5", "6", "7", "8", "9",
                "a", "b", "c", "d", "e", "f", "g", "h", "i", "m", "n", "o",
                "p", "r", "s", "t", "u", "v", "x", "y">>

Byte(c) == CHOOSE i \in 1..Len(AsciiOrder) : AsciiOrder[i] = c

\* Ord for String: byte-wise lexicographic.
RECURSIVE StrLess(_, _)
StrLess(a, b) == IF b = <<>> THEN FALSE
                 ELSE IF a = <<>> THEN TRUE
                 ELSE IF Head(a) = Head(b) THEN StrLess(Tail(a), Tail(b))
                 ELSE Byte(Head(a)) < Byte(Head(b))

\* A map that keeps its entries in arrival order (a Vec of pairs).
VecInsert(m, k, d) == Append(m, [key |-> k, def |-> d])

\* BTreeMap::insert: the map is the sequence of its entries in key order.
RECURSIVE BTreeInsert(_, _, _)
BTreeInsert(m, k, d) ==
    IF m = <<>> THEN <<[key |-> k, def |-> d]>>
    ELSE IF Head(m).key = k THEN <<[key |-> k, def |-> d]>> \o Tail(m)
    ELSE IF StrLess(k, Head(m).key) THEN <<[key |-> k, def |-> d]>> \o m
    ELSE <<Head(m)>> \o BTreeInsert(Tail(m), k, d)

\* Definition::deserialize of the value of a batch entry.
DecodeBatchValue(v) == IF v.kind = "object" THEN VisitMap(v.entries, "buffered")
                       ELSE Err("invalid", "Definition")

\* serde_json::from_slice::<RawGetResponse> from entry i on, m the map so far.
RECURSIVE CollectItems(_, _, _)
CollectItems(entries, i, m) ==
    IF i > Len(entries) THEN Ok(m)
    ELSE LET d == DecodeBatchValue(entries[i].value)
         IN IF d.tag = "Err" THEN Err("Json", d)
            ELSE CollectItems(entries, i + 1, BTreeInsert(m, entries[i].key, d.val))

\* GetResponse::try_from
GetResponseTryFrom(body) ==
    IF body.kind # "object" THEN Err("Json", Err("syntax", "expected an object"))
    ELSE LET res == CollectItems(body.entries, 1, <<>>)
         IN IF res.tag = "Err" THEN res
            ELSE Ok([definitions |-> [i \in 1..Len(res.val) |-> res.val[i].def]])

IsSuccessBelow400(status) == 200 <= status /\ status < 400

\* StatusCode::is_success
IsSuccess(status) == 200 <= status /\ status < 300

\* ApiResponse::try_from_parts; `attempted` records that the body was
\* handed to try_from.
TryFromPartsOf(resp) ==
    IF IsSuccess(resp.status)
    THEN [attempted |-> TRUE, value |-> GetResponseTryFrom(resp.body)]
    ELSE [attempted |-> FALSE, value |-> Err("HttpStatus", resp.status)]

MaxBatch == 3

BatchKeys == {CoordDispFmt(GetCoordPool[i]) : i \in 1..Len(GetCoordPool)}

JDef(entries) == [kind |-> "object", entries |-> entries]

JScalar == [kind |-> "scalar", entries |-> <<>>]

BatchValues ==
    {JDef(<<Entry("coordinates", JObj(1)), Entry("described", JObj(1)),
            Entry("licensed", JObj(1))>>),
     JDef(<<Entry("licensed", JBad), Entry("_meta", JObj(1)), Entry("described", JBad),
            Entry("coordinates", JObj(2)), Entry("files", JArr(1)),
            Entry("scores", JObj(2))>>),
     JDef(<<Entry("coordinates", JObj(3)), Entry("licensed", JObj(1))>>),
     JScalar}

BatchEntries == [key : BatchKeys, value : BatchValues]

Bodies == {[kind |-> "garbage", entries |-> <<>>]}
          \cup {[kind |-> "object", entries |-> e] : e \in SeqsUpTo(BatchEntries, MaxBatch)}

Statuses == {199, 200, 299, 300, 404}

InitResp ==
    /\ \E st \in Statuses, b \in Bodies : arg = [status |-> st, body |-> b]
    /\ pc = "response"
    /\ result = NoGet
    /\ chunk_size = 0 /\ coordinates = <<>> /\ coords = <<>>
    /\ requests = <<>> /\ yielded = <<>>

\* The response is handled with try_from_parts.
TryFromParts ==
    /\ pc = "response"
    /\ result' = TryFromPartsOf(arg)
    /\ pc' = "handled"
    /\ UNCHANGED <<arg, chunk_size, coordinates, coords, requests, yielded>>

\* The response is converted with GetResponse::try_from directly.
TryFrom ==
    /\ pc = "response"
    /\ result' = [attempted |-> TRUE, value |-> GetResponseTryFrom(arg.body)]
    /\ pc' = "converted"
    /\ UNCHANGED <<arg, chunk_size, coordinates, coords, requests, yielded>>

NextResp == TryFromParts \/ TryFrom

SpecResp == InitResp /\ [][NextResp]_vars

(***************************************************************************)
(* Properties of the response handling.                                    *)
(***************************************************************************)
\* C6: try_from_parts hands the body to try_from exactly when the status
\* is in 200..299; for any other status it returns the HttpStatus error
\* carrying that status, whatever the body is.
C6_StatusDecides ==
    pc = "handled" =>
        /\ result.attempted <=> (arg.status >= 200 /\ arg.status <= 299)
        /\ result.attempted => result.value = GetResponseTryFrom(arg.body)
        /\ ~result.attempted => result.value = Err("HttpStatus", arg.status)

\* C6 witness: a 300 response whose body would decode to a definition has
\* been handled: the status error, the body untouched.
C6_Witness ==
    /\ pc = "handled"
    /\ arg.status = 300
    /\ GetResponseTryFrom(arg.body).tag = "Ok"
    /\ Len(arg.body.entries) = 1
    /\ result = [attempted |-> FALSE, value |-> Err("HttpStatus", 300)]

\* C7 (as claimed, on payloads whose keys are all different): a batch
\* response that decodes yields one Definition per entry of the payload, in
\* the order of the entries in the payload.
C7_PayloadOrder ==
    (/\ pc = "converted"
     /\ result.value.tag = "Ok"
     /\ \A i, j \in 1..Len(arg.body.entries) :
            i # j => arg.body.entries[i].key # arg.body.entries[j].key) =>
        /\ Len(result.value.val.definitions) = Len(arg.body.entries)
        /\ \A i \in 1..Len(arg.body.entries) :
            result.value.val.definitions[i] = DecodeBatchValue(arg.body.entries[i].value).val

BodyKeys == {arg.body.entries[i].key : i \in 1..Len(arg.body.entries)}

\* The last entry of the payload with key k.
LastEntry(k) ==
    LET i == CHOOSE i \in 1..Len(arg.body.entries) :
                /\ arg.body.entries[i].key = k
                /\ \A j \in (i + 1)..Len(arg.body.entries) : arg.body.entries[j].key # k
    IN arg.body.entries[i]

\* The key with n smaller keys in the payload.
KeyOfRank(n) == CHOOSE k \in BodyKeys : Cardinality({j \in BodyKeys : StrLess(j, k)}) = n

\* C7 (amended): a batch response that decodes yields one Definition per
\* distinct key of the payload, the one decoded from the last entry with
\* that key, in ascending byte order of the keys.
C7_KeyOrder ==
    (pc = "converted" /\ result.value.tag = "Ok") =>
        /\ Len(result.value.val.definitions) = Cardinality(BodyKeys)
        /\ \A i \in 1..Cardinality(BodyKeys) :
            result.value.val.definitions[i] = DecodeBatchValue(LastEntry(KeyOfRank(i - 1)).value).val

\* C7 witness: a payload of two entries whose keys are in descending order
\* has been decoded: two definitions, the second entry's first.
C7_Witness ==
    /\ pc = "converted"
    /\ Len(arg.body.entries) = 2
    /\ StrLess(arg.body.entries[2].key, arg.body.entries[1].key)
    /\ result.value.tag = "Ok"
    /\ Len(result.value.val.definitions) = 2
    /\ result.value.val.definitions[1] = DecodeBatchValue(arg.body.entries[2].value).val
    /\ result.value.val.definitions[1] # result.value.val.definitions[2]

=============================================================================
